---- MODULE Spec2Model ----
(***************************************************************************)
(* Model of bigcsv.Parser: New, Run and processRow (src/bigcsv.go), the    *)
(* Open methods of the streams (src/stream.go), the Parse callback of the  *)
(* tests (ParseNumber, src/bigcsv_test.go) and the record-reuse behaviour  *)
(* of the csv.Reader that Run configures.                                  *)
(*                                                                         *)
(* One main goroutine executes Run; every successfully read record starts  *)
(* one processRow goroutine.  Each step of the model is one operation on   *)
(* shared state (semaphore channel, WaitGroup, reader, context) or the     *)
(* entry / return of one caller-supplied callback.                         *)
(***************************************************************************)
EXTENDS Integers, Sequences, FiniteSets, TLC

\* Bounds of the model.
MaxRows == 3        \* longest input, in records
MaxWorkers == 2     \* largest worker count passed to Run
MaxFaults == 2      \* most failures in one run: lines that fail to read or
                    \* to parse, callbacks that return an error

\* Width of Go's int on a 32-bit target (the loop counter ixRow).
IntMax == 2147483647

VARIABLES
    input,          \* the records the stream holds, in document order
    pos,            \* number of records the csv.Reader has consumed
    OnRow,          \* Parser.OnRow   # nil
    Parse,          \* Parser.Parse   # nil
    OnData,         \* Parser.OnData  # nil
    OnError,        \* Parser.OnError # nil
    workers,        \* argument of Run
    cancelled,      \* ctx.Done() is closed
    ReuseRecord,    \* Parser.Reader.ReuseRecord
    lastRecord,     \* backing array csv.Reader reuses when ReuseRecord
    pc,             \* position of the goroutine executing Run
    ixRow,          \* loop counter of Run
    sem,            \* number of elements in the channel sem
    wg,             \* counter of the WaitGroup
    closed,         \* number of calls of p.closer.Close()
    result,         \* what Run returned
    proc,           \* the processRow goroutines, by input position
    readLog,        \* history: the Reader.Read calls of Run
    mainErr,        \* history: ordinals Run reported through OnError
    iterCancelled,  \* history: ctx was done when the iteration began
    faults,         \* failures the run has been given so far
    leaked          \* streams Open has opened and neither returned nor closed

vars == <<input, pos, OnRow, Parse, OnData, OnError, workers, cancelled,
          ReuseRecord, lastRecord, pc, ixRow, sem, wg, closed, result,
          proc, readLog, mainErr, iterCancelled, faults, leaked>>

----------------------------------------------------------------------------
\* Records and the Parse callback of the tests.

Digit(k) == CASE k = 1 -> "1" [] k = 2 -> "2" [] k = 3 -> "3"
              [] k = 4 -> "4" [] k = 5 -> "5" [] OTHER -> "6"

Name(k) == CASE k = 1 -> "one" [] k = 2 -> "two" [] k = 3 -> "three"
             [] k = 4 -> "four" [] k = 5 -> "five" [] OTHER -> "six"

\* strconv.Atoi on the strings that occur as first fields.
Atoi(s) == CASE s = "1" -> [n |-> 1, ok |-> TRUE]
             [] s = "2" -> [n |-> 2, ok |-> TRUE]
             [] s = "3" -> [n |-> 3, ok |-> TRUE]
             [] s = "4" -> [n |-> 4, ok |-> TRUE]
             [] s = "5" -> [n |-> 5, ok |-> TRUE]
             [] s = "6" -> [n |-> 6, ok |-> TRUE]
             [] OTHER   -> [n |-> 0, ok |-> FALSE]

\* The zero value of Number.
NoNumber == [Integer |-> 0, String |-> ""]

ParseNumber(row) ==
    IF Len(row) < 2
    THEN [data |-> NoNumber, ok |-> FALSE]
    ELSE [data |-> [Integer |-> Atoi(row[1]).n, String |-> row[2]],
          ok   |-> Atoi(row[1]).ok]

\* What the k-th line of the stream can be: a record with a number, a
\* record whose first field is no number, or a line csv.Reader rejects.
GoodLine(k) == [ok |-> TRUE, fields |-> <<Digit(k), Name(k)>>]
TextLine(k) == [ok |-> TRUE, fields |-> <<"x", Name(k)>>]
BadLine     == [ok |-> FALSE, fields |-> <<"?">>]

Lines(k) == {GoodLine(k), TextLine(k), BadLine}

\* The lines of s that are not records with a number.
Faulty(s) == {k \in DOMAIN s : s[k] # GoodLine(k)}

Inputs == UNION {{s \in [1..n -> UNION {Lines(k) : k \in 1..n}] :
                    /\ \A k \in 1..n : s[k] \in Lines(k)
                    /\ Cardinality(Faulty(s)) <= MaxFaults} : n \in 0..MaxRows}

----------------------------------------------------------------------------
\* State before New, with the callbacks the caller is going to set.

NoProc == [pc |-> "none", ix |-> 0, shared |-> FALSE, row |-> <<>>,
           own |-> <<>>, data |-> NoNumber, failed |-> "", trace |-> <<>>]

Init ==
    /\ input \in Inputs
    /\ pos = 0
    /\ OnRow \in BOOLEAN
    /\ Parse \in BOOLEAN
    /\ OnData \in BOOLEAN
    /\ OnError \in BOOLEAN
    /\ workers \in 0..MaxWorkers
    /\ cancelled \in BOOLEAN
    /\ ReuseRecord = FALSE
    /\ lastRecord = <<>>
    /\ pc = "new"
    /\ ixRow = 0
    /\ sem = 0
    /\ wg = 0
    /\ closed = 0
    /\ result = "none"
    /\ proc = [p \in 1..MaxRows |-> NoProc]
    /\ readLog = <<>>
    /\ mainErr = <<>>
    /\ iterCancelled = FALSE
    /\ faults = Cardinality(Faulty(input))
    /\ leaked = 0

----------------------------------------------------------------------------
\* New and the Open methods of the streams.

\* A stream to open: its kind, whether it is detected as gzip, and the
\* step of Open that fails ("" for none).
Streams ==
    [kind : {"file"}, gz : BOOLEAN, fails : {"", "open", "gzip"}]
      \cup [kind : {"http"}, gz : BOOLEAN,
             fails : {"", "request", "do", "gzip"}]
      \cup [kind : {"reader"}, gz : {FALSE}, fails : {""}]

\* FileStream.Open: ok, and the number of files left open without being
\* returned.
FileStreamOpen(st) ==
    IF st.fails = "open" THEN [ok |-> FALSE, leaked |-> 0]
    ELSE IF st.gz /\ st.fails = "gzip" THEN [ok |-> FALSE, leaked |-> 0]
    ELSE [ok |-> TRUE, leaked |-> 0]

\* HTTPStream.Open: ok, and the number of response bodies left open
\* without being returned.
HTTPStreamOpen(st) ==
    IF st.fails \in {"request", "do"} THEN [ok |-> FALSE, leaked |-> 0]
    ELSE IF st.gz /\ st.fails = "gzip" THEN [ok |-> FALSE, leaked |-> 1]
    ELSE [ok |-> TRUE, leaked |-> 0]

\* readerAdapter.Open
ReaderOpen(st) == [ok |-> TRUE, leaked |-> 0]

Open(st) ==
    CASE st.kind = "file" -> FileStreamOpen(st)
      [] st.kind = "http" -> HTTPStreamOpen(st)
      [] OTHER -> ReaderOpen(st)

\* New: r, err := stream.Open(); the Parser exists only if err is nil.
New ==
    /\ pc = "new"
    /\ \E st \in Streams :
          /\ pc' = IF Open(st).ok THEN "idle" ELSE "nostream"
          /\ leaked' = Open(st).leaked
    /\ UNCHANGED <<input, pos, OnRow, Parse, OnData, OnError, workers,
                   cancelled, ReuseRecord, lastRecord, ixRow, sem, wg,
                   closed, result, proc, readLog, mainErr, iterCancelled,
                   faults>>

----------------------------------------------------------------------------
\* Run: the goroutine of the caller.

\* The two precondition checks at the entry of Run.
HandlerWithoutParse == OnData /\ ~Parse

\* The worker check that lets zero through.
InvalidWorkersOff == workers < 0

InvalidWorkers == workers < 1

\* A channel with one element too many.
SemCapOff == workers + 1

\* make(chan struct{}, workers)
SemCap == workers

\* Records reused whatever the worker count.
ReuseAlways(w) == TRUE

\* Records reused for every valid worker count.
ReuseForMany(w) == w >= 1

\* p.Reader.ReuseRecord = workers == 1
ReuseFor(w) == w = 1

\* ixRow++ on an int
NextIx(i) == IF i = IntMax THEN -IntMax - 1 ELSE i + 1

\* the loop condition ixRow > 0
LoopCond(i) == i > 0

\* A return with no deferred Close.
ReturnSkipClose == "returned"

\* defer p.closer.Close(): where a return statement of Run leads.
ReturnTo == "closing"

\* A wait that does not wait.
WaitSkipped == TRUE

\* wg.Wait() returns when the counter is zero.
WaitDone == wg = 0

\* Where Run continues after the loop statement has stepped to ordinal i.
LoopTop(i) == IF LoopCond(i) THEN "select" ELSE "wait"

\* Reader.Read appended to the history.
Logged(res) == Append(readLog, [ord |-> ixRow, res |-> res])

RunEntry ==
    /\ UNCHANGED <<faults, leaked>>
    /\ pc = "idle"
    /\ IF HandlerWithoutParse \/ InvalidWorkers
       THEN /\ result' = "error"
            /\ pc' = ReturnTo
            /\ UNCHANGED <<ReuseRecord, ixRow, iterCancelled>>
       ELSE /\ ReuseRecord' = ReuseFor(workers)
            /\ ixRow' = 1
            /\ pc' = LoopTop(1)
            /\ iterCancelled' = cancelled
            /\ UNCHANGED result
    /\ UNCHANGED <<input, pos, OnRow, Parse, OnData, OnError, workers,
                   cancelled, lastRecord, sem, wg, closed, proc, readLog,
                   mainErr>>

\* The cancellation that makes Run return at once, without wg.Wait.
SelectDoneAbort ==
    /\ UNCHANGED <<faults, leaked>>
    /\ pc = "select"
    /\ cancelled
    /\ result' = "nil"
    /\ pc' = ReturnTo
    /\ UNCHANGED <<input, pos, OnRow, Parse, OnData, OnError, workers,
                   cancelled, ReuseRecord, lastRecord, ixRow, sem, wg,
                   closed, proc, readLog, mainErr, iterCancelled>>

\* The cancellation that is looked at only once a slot is free.
SelectDoneAfterSlot ==
    /\ UNCHANGED <<faults, leaked>>
    /\ pc = "select"
    /\ sem < SemCap
    /\ cancelled
    /\ pc' = "wait"
    /\ UNCHANGED <<input, pos, OnRow, Parse, OnData, OnError, workers,
                   cancelled, ReuseRecord, lastRecord, ixRow, sem, wg,
                   closed, result, proc, readLog, mainErr, iterCancelled>>

\* select: case <-ctx.Done()
SelectDone ==
    /\ UNCHANGED <<faults, leaked>>
    /\ pc = "select"
    /\ cancelled
    /\ pc' = "wait"
    /\ UNCHANGED <<input, pos, OnRow, Parse, OnData, OnError, workers,
                   cancelled, ReuseRecord, lastRecord, ixRow, sem, wg,
                   closed, result, proc, readLog, mainErr, iterCancelled>>

\* The send that never blocks: the read is not held back by the semaphore.
SelectSendUnheld ==
    /\ UNCHANGED <<faults, leaked>>
    /\ pc = "select"
    /\ sem' = IF sem < SemCap THEN sem + 1 ELSE sem
    /\ pc' = "read"
    /\ UNCHANGED <<input, pos, OnRow, Parse, OnData, OnError, workers,
                   cancelled, ReuseRecord, lastRecord, ixRow, wg, closed,
                   result, proc, readLog, mainErr, iterCancelled>>

\* The send of a loop that waits for the worker it dispatched.
SelectSendSerial ==
    /\ UNCHANGED <<faults, leaked>>
    /\ pc = "select"
    /\ sem < SemCap
    /\ wg = 0
    /\ sem' = sem + 1
    /\ pc' = "read"
    /\ UNCHANGED <<input, pos, OnRow, Parse, OnData, OnError, workers,
                   cancelled, ReuseRecord, lastRecord, ixRow, wg, closed,
                   result, proc, readLog, mainErr, iterCancelled>>

\* select: case sem <- struct{}{}
SelectSend ==
    /\ UNCHANGED <<faults, leaked>>
    /\ pc = "select"
    /\ sem < SemCap
    /\ sem' = sem + 1
    /\ pc' = "read"
    /\ UNCHANGED <<input, pos, OnRow, Parse, OnData, OnError, workers,
                   cancelled, ReuseRecord, lastRecord, ixRow, wg, closed,
                   result, proc, readLog, mainErr, iterCancelled>>

\* Reader.Read returns io.EOF
ReadEOF ==
    /\ UNCHANGED <<faults, leaked>>
    /\ pc = "read"
    /\ pos = Len(input)
    /\ readLog' = Logged("EOF")
    /\ pc' = "wait"
    /\ UNCHANGED <<input, pos, OnRow, Parse, OnData, OnError, workers,
                   cancelled, ReuseRecord, lastRecord, ixRow, sem, wg,
                   closed, result, proc, mainErr, iterCancelled>>

\* The read error that ends the loop like end-of-stream.
ReadErrorStops ==
    /\ UNCHANGED <<faults, leaked>>
    /\ pc = "read"
    /\ pos < Len(input)
    /\ ~input[pos + 1].ok
    /\ pos' = pos + 1
    /\ readLog' = Logged("error")
    /\ lastRecord' \in IF ReuseRecord
                       THEN {lastRecord, input[pos + 1].fields}
                       ELSE {lastRecord}
    /\ mainErr' = IF OnError THEN Append(mainErr, ixRow) ELSE mainErr
    /\ pc' = "wait"
    /\ UNCHANGED <<input, OnRow, Parse, OnData, OnError, workers,
                   cancelled, ReuseRecord, ixRow, sem, wg, closed, result,
                   proc, iterCancelled>>

\* Reader.Read returns another error; OnError is entered if configured.
\* A failed read in reuse mode may have written the fields it had
\* collected into the reused array.
ReadError ==
    /\ UNCHANGED <<faults, leaked>>
    /\ pc = "read"
    /\ pos < Len(input)
    /\ ~input[pos + 1].ok
    /\ pos' = pos + 1
    /\ readLog' = Logged("error")
    /\ lastRecord' \in IF ReuseRecord
                       THEN {lastRecord, input[pos + 1].fields}
                       ELSE {lastRecord}
    /\ IF OnError
       THEN /\ mainErr' = Append(mainErr, ixRow)
            /\ pc' = "inOnError"
       ELSE /\ pc' = "relsem"
            /\ UNCHANGED mainErr
    /\ UNCHANGED <<input, OnRow, Parse, OnData, OnError, workers,
                   cancelled, ReuseRecord, ixRow, sem, wg, closed, result,
                   proc, iterCancelled>>

\* p.OnError returns to Run
ErrorReturn ==
    /\ UNCHANGED <<faults, leaked>>
    /\ pc = "inOnError"
    /\ pc' = "relsem"
    /\ UNCHANGED <<input, pos, OnRow, Parse, OnData, OnError, workers,
                   cancelled, ReuseRecord, lastRecord, ixRow, sem, wg,
                   closed, result, proc, readLog, mainErr, iterCancelled>>

\* The read error that does not count as a row: the ordinal stays.
ReleaseContinueSameIx ==
    /\ UNCHANGED <<faults, leaked>>
    /\ pc = "relsem"
    /\ sem > 0
    /\ sem' = sem - 1
    /\ pc' = LoopTop(ixRow)
    /\ iterCancelled' = cancelled
    /\ UNCHANGED <<input, pos, OnRow, Parse, OnData, OnError, workers,
                   cancelled, ReuseRecord, lastRecord, ixRow, wg, closed,
                   result, proc, readLog, mainErr>>

\* <-sem; continue LoopOverRows
ReleaseContinue ==
    /\ UNCHANGED <<faults, leaked>>
    /\ pc = "relsem"
    /\ sem > 0
    /\ sem' = sem - 1
    /\ ixRow' = NextIx(ixRow)
    /\ pc' = LoopTop(NextIx(ixRow))
    /\ iterCancelled' = cancelled
    /\ UNCHANGED <<input, pos, OnRow, Parse, OnData, OnError, workers,
                   cancelled, ReuseRecord, lastRecord, wg, closed, result,
                   proc, readLog, mainErr>>

\* Reader.Read returns a record; wg.Add(1); go p.processRow(...)
ReadDispatch ==
    /\ UNCHANGED <<faults, leaked>>
    /\ pc = "read"
    /\ pos < Len(input)
    /\ input[pos + 1].ok
    /\ pos' = pos + 1
    /\ readLog' = Logged("record")
    /\ lastRecord' = IF ReuseRecord THEN input[pos + 1].fields
                                    ELSE lastRecord
    /\ wg' = wg + 1
    /\ proc' = [proc EXCEPT ![pos + 1] =
                  [NoProc EXCEPT !.pc = "start", !.ix = ixRow,
                                 !.shared = ReuseRecord,
                                 !.row = input[pos + 1].fields,
                                 !.own = input[pos + 1].fields]]
    /\ ixRow' = NextIx(ixRow)
    /\ pc' = LoopTop(NextIx(ixRow))
    /\ iterCancelled' = cancelled
    /\ UNCHANGED <<input, OnRow, Parse, OnData, OnError, workers,
                   cancelled, ReuseRecord, sem, closed, result, mainErr>>

\* wg.Wait() returns; return nil
Wait ==
    /\ UNCHANGED <<faults, leaked>>
    /\ pc = "wait"
    /\ WaitDone
    /\ result' = "nil"
    /\ pc' = ReturnTo
    /\ UNCHANGED <<input, pos, OnRow, Parse, OnData, OnError, workers,
                   cancelled, ReuseRecord, lastRecord, ixRow, sem, wg,
                   closed, proc, readLog, mainErr, iterCancelled>>

\* the deferred p.closer.Close(); Run returns to its caller
Close ==
    /\ UNCHANGED <<faults, leaked>>
    /\ pc = "closing"
    /\ closed' = closed + 1
    /\ pc' = "returned"
    /\ UNCHANGED <<input, pos, OnRow, Parse, OnData, OnError, workers,
                   cancelled, ReuseRecord, lastRecord, ixRow, sem, wg,
                   result, proc, readLog, mainErr, iterCancelled>>

\* The caller's context is cancelled while Run executes.
Cancel ==
    /\ UNCHANGED <<faults, leaked>>
    /\ pc \notin {"new", "nostream", "idle", "returned"}
    /\ ~cancelled
    /\ cancelled' = TRUE
    /\ UNCHANGED <<input, pos, OnRow, Parse, OnData, OnError, workers,
                   ReuseRecord, lastRecord, pc, ixRow, sem, wg, closed,
                   result, proc, readLog, mainErr, iterCancelled>>

----------------------------------------------------------------------------
\* processRow: one goroutine per record that was read.

Procs == 1..MaxRows

\* The fields the slice `row` of goroutine q holds now.  With ReuseRecord
\* the slice shares the array that later reads write into.
View(q) ==
    IF proc[q].shared
    THEN [i \in 1..Len(proc[q].row) |->
             IF i <= Len(lastRecord) THEN lastRecord[i] ELSE proc[q].row[i]]
    ELSE proc[q].row

\* One callback invocation in the history of a goroutine.
Event(cb, q, tag, data) ==
    [cb |-> cb, line |-> proc[q].ix, tag |-> tag, row |-> View(q),
     data |-> data]

\* Goroutine q enters callback cb, or the deferred function.
Enter(q, cb, tag, data) ==
    IF cb = "release"
    THEN [proc[q] EXCEPT !.pc = "release", !.data = data]
    ELSE [proc[q] EXCEPT !.pc = cb, !.data = data,
                         !.trace = Append(@, Event(cb, q, tag, data))]

\* The failure path that returns without giving the slot back.
FailLeak(q, tag) ==
    [(IF OnError THEN Enter(q, "OnError", tag, proc[q].data)
                 ELSE [proc[q] EXCEPT !.pc = "wgdone"])
       EXCEPT !.failed = tag]

\* The failure path that reports nothing.
FailSilent(q, tag) ==
    [Enter(q, "release", "", proc[q].data) EXCEPT !.failed = tag]

\* if err != nil { if p.OnError != nil { p.OnError(...) }; return }
Fail(q, tag) ==
    [(IF OnError THEN Enter(q, "OnError", tag, proc[q].data)
                 ELSE Enter(q, "release", "", proc[q].data))
       EXCEPT !.failed = tag]

\* if p.Parse == nil { return }; data, err := p.Parse(row)
ToParse(q) ==
    IF Parse THEN Enter(q, "Parse", "", proc[q].data)
             ELSE Enter(q, "release", "", proc[q].data)

\* if p.OnData == nil { return }; err = p.OnData(data)
ToOnData(q, data) ==
    IF OnData THEN Enter(q, "OnData", "", data)
              ELSE Enter(q, "release", "", data)

Unchanged ==
    UNCHANGED <<input, pos, OnRow, Parse, OnData, OnError, workers,
                cancelled, ReuseRecord, lastRecord, pc, ixRow, closed,
                result, readLog, mainErr, iterCancelled, leaked>>

\* The errors a caller-supplied callback may return now.
Errs == IF faults < MaxFaults THEN BOOLEAN ELSE {FALSE}

Count(err) == IF err THEN faults + 1 ELSE faults

\* The goroutine starts: if p.OnRow != nil { p.OnRow(row) }
Start(q) ==
    /\ UNCHANGED faults
    /\ proc[q].pc = "start"
    /\ proc' = [proc EXCEPT ![q] =
                  IF OnRow THEN Enter(q, "OnRow", "", proc[q].data)
                           ELSE ToParse(q)]
    /\ UNCHANGED <<sem, wg>>
    /\ Unchanged

\* p.OnRow returns, with or without an error
OnRowReturn(q) ==
    /\ proc[q].pc = "OnRow"
    /\ \E err \in Errs :
         /\ proc' = [proc EXCEPT ![q] =
                      IF err THEN Fail(q, "ErrOnRow") ELSE ToParse(q)]
         /\ faults' = Count(err)
    /\ UNCHANGED <<sem, wg>>
    /\ Unchanged

\* p.Parse returns what ParseNumber makes of the fields
ParseReturn(q) ==
    /\ UNCHANGED faults
    /\ proc[q].pc = "Parse"
    /\ proc' = [proc EXCEPT ![q] =
                  IF ParseNumber(View(q)).ok
                  THEN ToOnData(q, ParseNumber(View(q)).data)
                  ELSE Fail(q, "ErrParse")]
    /\ UNCHANGED <<sem, wg>>
    /\ Unchanged

\* p.OnData returns, with or without an error
OnDataReturn(q) ==
    /\ proc[q].pc = "OnData"
    /\ \E err \in Errs :
         /\ proc' = [proc EXCEPT ![q] =
                      IF err THEN Fail(q, "ErrOnData")
                             ELSE Enter(q, "release", "", proc[q].data)]
         /\ faults' = Count(err)
    /\ UNCHANGED <<sem, wg>>
    /\ Unchanged

\* p.OnError returns to processRow
OnErrorReturn(q) ==
    /\ UNCHANGED faults
    /\ proc[q].pc = "OnError"
    /\ proc' = [proc EXCEPT ![q] = Enter(q, "release", "", proc[q].data)]
    /\ UNCHANGED <<sem, wg>>
    /\ Unchanged

\* deferred: <-sem
Release(q) ==
    /\ proc[q].pc = "release"
    /\ sem > 0
    /\ sem' = sem - 1
    /\ proc' = [proc EXCEPT ![q].pc = "wgdone"]
    /\ UNCHANGED <<wg, faults>>
    /\ Unchanged

\* The goroutine that ends without wg.Done().
DoneLost(q) ==
    /\ proc[q].pc = "wgdone"
    /\ proc' = [proc EXCEPT ![q].pc = "done"]
    /\ UNCHANGED <<sem, wg, faults>>
    /\ Unchanged

\* deferred: wg.Done()
Done(q) ==
    /\ proc[q].pc = "wgdone"
    /\ wg' = wg - 1
    /\ proc' = [proc EXCEPT ![q].pc = "done"]
    /\ UNCHANGED <<sem, faults>>
    /\ Unchanged

----------------------------------------------------------------------------
Next ==
    \/ New
    \/ RunEntry
    \/ SelectDone
    \/ SelectSend
    \/ ReadEOF
    \/ ReadError
    \/ ErrorReturn
    \/ ReleaseContinue
    \/ ReadDispatch
    \/ Wait
    \/ Close
    \/ Cancel
    \/ \E q \in Procs : Start(q)
    \/ \E q \in Procs : OnRowReturn(q)
    \/ \E q \in Procs : ParseReturn(q)
    \/ \E q \in Procs : OnDataReturn(q)
    \/ \E q \in Procs : OnErrorReturn(q)
    \/ \E q \in Procs : Release(q)
    \/ \E q \in Procs : Done(q)

Spec == Init /\ [][Next]_vars

\* The steps of the goroutine that calls New and Run.
RunStep ==
    \/ New
    \/ RunEntry
    \/ SelectDone
    \/ SelectSend
    \/ ReadEOF
    \/ ReadError
    \/ ErrorReturn
    \/ ReleaseContinue
    \/ ReadDispatch
    \/ Wait
    \/ Close

\* The steps of the processRow goroutine q.
ProcStep(q) ==
    \/ Start(q)
    \/ OnRowReturn(q)
    \/ ParseReturn(q)
    \/ OnDataReturn(q)
    \/ OnErrorReturn(q)
    \/ Release(q)
    \/ Done(q)

\* The initial states with every callback set or none: the runs with
\* the most and with the fewest stages per row.
LiveInit ==
    /\ Init
    /\ OnRow = Parse /\ Parse = OnData /\ OnData = OnError

\* The Go scheduler runs every goroutine that can run, and every callback
\* invocation returns.
FairSpec ==
    /\ LiveInit
    /\ [][Next]_vars
    /\ WF_vars(RunStep)
    /\ \A q \in Procs : WF_vars(ProcStep(q))

\* The Go scheduler runs the goroutine of Run whenever it can run; the
\* callbacks Run itself invokes return, those of the workers need not.
RunFairSpec ==
    /\ LiveInit
    /\ [][Next]_vars
    /\ WF_vars(RunStep)

TypeOK ==
    /\ pos \in 0..Len(input)
    /\ sem \in 0..MaxWorkers
    /\ wg \in 0..MaxRows
    /\ closed \in 0..1
    /\ leaked \in 0..1
    /\ pc \in {"new", "nostream", "idle", "select", "read", "inOnError", "relsem", "wait",
               "closing", "returned"}
    /\ \A q \in Procs : proc[q].pc \in {"none", "start", "OnRow", "Parse",
                           "OnData", "OnError", "release", "wgdone", "done"}

----------------------------------------------------------------------------
\* Properties.

\* The goroutines whose row is being processed: dispatched, and the
\* deferred function has not yet given the slot back.
InFlight == {q \in Procs : proc[q].pc \in {"start", "OnRow", "Parse",
                              "OnData", "OnError", "release"}}

\* The goroutines that went through all of processRow.
Finished == {q \in Procs : proc[q].pc = "done"}

Dispatched == {q \in Procs : proc[q].pc # "none"}

C2_ReuseSafe ==
    (workers = 1 /\ ReuseRecord) =>
        /\ pc = "read" => InFlight = {}
        /\ \A q \in InFlight : View(q) = proc[q].own

\* The handler of the second row is paused in the reused array while a
\* further row waits in the input.
C2_Witness ==
    /\ workers = 1
    /\ ReuseRecord
    /\ proc[2].pc = "OnData"
    /\ proc[2].shared
    /\ proc[1].pc = "done"
    /\ pos < Len(input)
    /\ View(2) = proc[2].own

\* C3: an iteration of the loop that begins with the context already
\* cancelled acquires no slot and reads nothing.
C3_CancelledIterationReadsNothing ==
    iterCancelled => pc \notin {"read", "inOnError", "relsem"}

\* The callbacks goroutine q has invoked, in order.
Cbs(q) == [i \in 1..Len(proc[q].trace) |-> proc[q].trace[i].cb]

\* The callbacks a row is to go through when its first failure is f
\* ("" for none), under the configured callbacks.
Pre == IF OnRow THEN <<"OnRow">> ELSE <<>>

Report == IF OnError THEN <<"OnError">> ELSE <<>>

ExpectedCbs(f) ==
    CASE f = "ErrOnRow"  -> <<"OnRow">> \o Report
      [] f = "ErrParse"  -> Pre \o <<"Parse">> \o Report
      [] f = "ErrOnData" -> Pre \o <<"Parse", "OnData">> \o Report
      [] OTHER -> Pre \o (IF Parse
                          THEN <<"Parse">> \o
                               (IF OnData THEN <<"OnData">> ELSE <<>>)
                          ELSE <<>>)

\* Both preconditions of Run hold.
ConfigValid == (OnData => Parse) /\ workers >= 1

\* C4: Run returns and closes the stream only after every dispatched
\* worker has finished; a row dispatched before a cancellation still runs
\* all of its stages, its handler included.
C4_ReturnAfterWorkers ==
    (pc = "returned" \/ closed > 0) =>
        \A q \in Dispatched :
            /\ proc[q].pc = "done"
            /\ proc[q].failed = "" => Cbs(q) = ExpectedCbs("")

\* Run returned after a cancellation that left input unread, and a row
\* dispatched before it went through its handler.
C4_Witness ==
    /\ pc = "returned"
    /\ cancelled
    /\ pos < Len(input)
    /\ OnData
    /\ \E q \in Finished :
          /\ proc[q].failed = ""
          /\ Cbs(q)[Len(Cbs(q))] = "OnData"

\* The ordinals Run has reported for read errors, given the reads so far.
ErrorOrdinals ==
    LET errs == SelectSeq(readLog, LAMBDA r : r.res = "error")
    IN  [i \in 1..Len(errs) |-> errs[i].ord]

\* C5: the k-th Reader.Read of Run carries ordinal k, a worker and a read
\* error report carry the ordinal of their read, and without cancellation
\* an input of N records is read with ordinals 1..N (then end-of-stream).
C5_Ordinals ==
    /\ \A k \in DOMAIN readLog : readLog[k].ord = k
    /\ \A q \in Dispatched :
          /\ readLog[q].res = "record"
          /\ proc[q].ix = readLog[q].ord
          /\ \A i \in DOMAIN proc[q].trace :
                proc[q].trace[i].line = readLog[q].ord
    /\ mainErr = IF OnError THEN ErrorOrdinals ELSE <<>>
    /\ (pc = "returned" /\ ~cancelled /\ ConfigValid) =>
          /\ Len(readLog) = Len(input) + 1
          /\ readLog[Len(readLog)].res = "EOF"

\* A run without cancellation whose second read failed and whose third
\* read produced a row.
C5_Witness ==
    /\ pc = "returned"
    /\ ~cancelled
    /\ Len(input) = 3
    /\ Len(readLog) = 4
    /\ readLog[2].res = "error"
    /\ mainErr = <<2>>
    /\ proc[3].pc = "done"
    /\ proc[3].ix = 3

\* The slots Run itself holds: the one of the iteration in progress, or
\* the one of the iteration that met end-of-stream (the break leaves it in
\* the channel, which Run drops at its return).
HeldByRun ==
    IF \/ pc \in {"read", "inOnError", "relsem"}
       \/ (readLog # <<>> /\ readLog[Len(readLog)].res = "EOF")
    THEN 1 ELSE 0

\* C6: with valid configuration Run returns nil whatever fails; every
\* slot taken is held by a row in processing or by Run itself, so a failed
\* row gives its slot back; and at the return every record that was read
\* has gone through all the stages up to its own failure.
C6_RowFailuresIsolated ==
    ConfigValid =>
        /\ sem = Cardinality(InFlight) + HeldByRun
        /\ pc = "returned" =>
              /\ result = "nil"
              /\ InFlight = {}
              /\ \A k \in 1..pos :
                    input[k].ok =>
                        /\ proc[k].pc = "done"
                        /\ Cbs(k) = ExpectedCbs(proc[k].failed)

\* No error callback; the second row failed in its handler, the rows
\* before and after it ran all their stages, and Run returned nil.
C6_Witness ==
    /\ pc = "returned"
    /\ result = "nil"
    /\ ~OnError
    /\ OnRow
    /\ proc[2].failed = "ErrOnData"
    /\ proc[1].pc = "done" /\ proc[1].failed = ""
    /\ proc[3].pc = "done" /\ proc[3].failed = ""
    /\ Cbs(1) = <<"OnRow", "Parse", "OnData">>
    /\ Cbs(3) = <<"OnRow", "Parse", "OnData">>

\* C7: a result handler without a parse function, or a worker count
\* below 1, makes Run return the configuration error with no read, no
\* slot taken, no worker dispatched and no callback invoked.
C7_ConfigError ==
    ((OnData /\ ~Parse) \/ workers < 1) =>
        /\ readLog = <<>>
        /\ pos = 0
        /\ sem = 0
        /\ wg = 0
        /\ Dispatched = {}
        /\ mainErr = <<>>
        /\ pc \notin {"select", "read", "inOnError", "relsem", "wait"}
        /\ result # "nil"
        /\ pc = "returned" => result = "error"

\* Run returned the configuration error for a handler without parse
\* function, with input at hand and a valid worker count.
C7_Witness ==
    /\ pc = "returned"
    /\ result = "error"
    /\ OnData /\ ~Parse
    /\ workers >= 1
    /\ Len(input) > 0
    /\ pos = 0

IsPrefix(s, t) == Len(s) <= Len(t) /\ \A i \in 1..Len(s) : s[i] = t[i]

\* C8: a worker invokes pre-parse hook, parse function and handler in
\* this order, stops at its first failure or first missing parse/handler,
\* and reports a failure exactly once (if an error callback is configured)
\* with the tag of the failing stage and the ordinal of its row.
C8_StagesAndReport ==
    \A q \in Dispatched :
        /\ IsPrefix(Cbs(q), ExpectedCbs(proc[q].failed))
        /\ proc[q].pc \in {"release", "wgdone", "done"} =>
              Cbs(q) = ExpectedCbs(proc[q].failed)
        /\ proc[q].pc \in {"OnRow", "Parse", "OnData", "OnError"} =>
              Cbs(q)[Len(Cbs(q))] = proc[q].pc
        /\ proc[q].pc \in {"OnRow", "Parse", "OnData", "start"} =>
              proc[q].failed = ""
        /\ proc[q].failed = "ErrParse" => ~ParseNumber(proc[q].own).ok
        /\ \A i \in DOMAIN proc[q].trace :
              IF proc[q].trace[i].cb = "OnError"
              THEN /\ proc[q].trace[i].tag = proc[q].failed
                   /\ proc[q].trace[i].tag \in
                         {"ErrOnRow", "ErrParse", "ErrOnData"}
                   /\ proc[q].trace[i].line = proc[q].ix
              ELSE proc[q].trace[i].tag = ""

\* One row failed in Parse and reported it once with ErrParse and its
\* ordinal; another row went through all stages and reported nothing.
C8_Witness ==
    /\ OnError
    /\ \E q \in Finished :
          /\ Cbs(q) = <<"OnRow", "Parse", "OnError">>
          /\ proc[q].trace[3].tag = "ErrParse"
          /\ proc[q].trace[3].line = q
    /\ \E q \in Finished : Cbs(q) = <<"OnRow", "Parse", "OnData">>

\* C9: the stream is closed exactly once, when Run returns, on every
\* exit path, and never before.
C9_ClosedOnce ==
    closed = IF pc = "returned" THEN 1 ELSE 0

\* Run left the loop by cancellation with input unread, waited for a
\* worker, closed the stream and returned.
C9_Witness ==
    /\ pc = "returned"
    /\ closed = 1
    /\ result = "nil"
    /\ cancelled
    /\ pos < Len(input)
    /\ Finished # {}

\* The values the handler of goroutine q was invoked with.
Handled(q) ==
    LET evs == SelectSeq(proc[q].trace, LAMBDA e : e.cb = "OnData")
    IN  [i \in 1..Len(evs) |-> evs[i].data]

\* C10: without cancellation every record the reader returns is
\* dispatched to one worker, and a row whose stages all succeed has its
\* handler invoked exactly once before Run returns, with the value parsed
\* from its own fields.
C10_EachRowOnce ==
    /\ \A q \in Dispatched :
          /\ input[q].ok
          /\ \A i \in DOMAIN Handled(q) :
                Handled(q)[i] = ParseNumber(input[q].fields).data
    /\ (pc = "returned" /\ ~cancelled /\ ConfigValid) =>
          \A k \in 1..Len(input) :
              input[k].ok =>
                  /\ proc[k].pc = "done"
                  /\ proc[k].ix = k
                  /\ (OnData /\ proc[k].failed = "") =>
                        Handled(k) = <<ParseNumber(input[k].fields).data>>

\* The 3-row input of the test with one worker: the handler saw the three
\* parsed values, one per row.
C10_Witness ==
    /\ pc = "returned"
    /\ ~cancelled
    /\ workers = 1
    /\ Len(input) = 3
    /\ Handled(1) = <<[Integer |-> 1, String |-> "one"]>>
    /\ Handled(2) = <<[Integer |-> 2, String |-> "two"]>>
    /\ Handled(3) = <<[Integer |-> 3, String |-> "three"]>>


\* C11: the loop does not wait for the workers it dispatched: at the top
\* of an iteration it can take a slot and read whenever fewer than W rows
\* are in processing, whatever those rows are doing.
C11_LoopDoesNotWait ==
    (pc = "select" /\ Cardinality(InFlight) < workers) => ENABLED SelectSend

\* W >= 2 rows are in their handlers at the same time.
C11_Witness ==
    /\ workers >= 2
    /\ \A q \in 1..workers : proc[q].pc = "OnData"


\* C14: when opening the source fails at any step, New returns an error
\* and no file or response body is left open.
C14_NoStreamLeftOpen ==
    pc = "nostream" => leaked = 0


\* C13: once the result handler has returned an error for some row, no
\* further row is read from the source.
C13_HandlerErrorStopsReading ==
    [][(\E q \in Procs : proc[q].failed = "ErrOnData") => readLog' = readLog]_vars


\* C15: a read that fails with an error other than end-of-stream starts
\* no worker and is reported once with the ordinal of its iteration (if
\* an error callback is configured); the slot of that iteration is free
\* again at the next iteration, and the rows after it are read and
\* processed as usual.
C15_ReadErrorSkipsRow ==
    /\ \A k \in DOMAIN readLog :
          readLog[k].res = "error" =>
              /\ proc[k].pc = "none"
              /\ OnError /\ (pc # "read" \/ k < Len(readLog)) =>
                    Cardinality({i \in DOMAIN mainErr :
                                    mainErr[i] = readLog[k].ord}) = 1
    /\ ~OnError => mainErr = <<>>
    /\ Len(mainErr) <= Len(readLog)
    /\ pc = "select" => sem = Cardinality(InFlight)
    /\ (pc = "returned" /\ ~cancelled /\ ConfigValid) =>
          \A k \in 1..Len(input) :
              input[k].ok =>
                  /\ proc[k].pc = "done"
                  /\ Cbs(k) = ExpectedCbs(proc[k].failed)

\* The first read failed and was reported with ordinal 1; the rows after
\* it were read, and the second went through all stages.
C15_Witness ==
    /\ pc = "returned"
    /\ ~cancelled
    /\ OnError
    /\ Len(input) >= 3
    /\ Len(readLog) = Len(input) + 1
    /\ readLog[1].res = "error"
    /\ mainErr = <<1>>
    /\ proc[1].pc = "none"
    /\ proc[2].pc = "done"
    /\ Cbs(2) = <<"OnRow", "Parse", "OnData">>
    /\ proc[3].pc = "done"


\* C16: workers are dispatched in document order with increasing
\* ordinals for every worker count; with one worker a row reaches its
\* callbacks only after every row before it has left processing, so
\* handlers run in document order too.  (The witness shows the handler of
\* a later row running first when W >= 2.)
C16_DispatchOrder ==
    /\ \A q, r \in Dispatched : q < r => proc[q].ix < proc[r].ix
    /\ \A r \in Dispatched :
          \A q \in 1..(r - 1) : input[q].ok => q \in Dispatched
    /\ workers = 1 =>
          \A q, r \in Dispatched :
              q < r => proc[q].pc \in {"wgdone", "done"}

\* With W >= 2 the handler of row 2 has run to its end while row 1, which
\* parses and has a handler to go through, has not reached it yet.
C16_Witness ==
    /\ workers >= 2
    /\ OnData
    /\ Handled(2) # <<>>
    /\ proc[2].pc = "done"
    /\ proc[1].pc = "Parse"
    /\ ParseNumber(View(1)).ok
    /\ Handled(1) = <<>>

\* C17: Run switches record reuse on exactly when the worker count is 1;
\* with W >= 2 every row has fields of its own, which no later read
\* changes.
C17_ReuseOnlyForOne ==
    /\ (pc \notin {"new", "nostream", "idle"} /\ ConfigValid) =>
          (ReuseRecord <=> workers = 1)
    /\ workers >= 2 =>
          \A q \in Dispatched :
              /\ ~proc[q].shared
              /\ View(q) = proc[q].own

\* With W >= 2 the first row is still in its handler, with its own
\* fields, after the second line has been read.
C17_Witness ==
    /\ workers >= 2
    /\ ~ReuseRecord
    /\ proc[1].pc = "OnData"
    /\ pos >= 2
    /\ readLog[2].res = "record"
    /\ View(1) = input[1].fields

\* The goroutines that are inside a caller-supplied callback.
Running == {q \in Procs : proc[q].pc \in {"OnRow", "Parse", "OnData",
                                           "OnError"}}

\* C20: with one worker at most one caller-supplied callback executes at
\* any instant, counting the error callback Run invokes for a read error.
C20_OneCallbackAtATime ==
    workers = 1 =>
        Cardinality(Running) + (IF pc = "inOnError" THEN 1 ELSE 0) <= 1

\* With one worker Run is inside OnError for a read error after an
\* earlier row went through its callbacks; no worker is in a callback.
C20_Witness ==
    /\ workers = 1
    /\ pc = "inOnError"
    /\ proc[1].pc = "done"
    /\ Cbs(1) # <<>>
    /\ Running = {}


\* C12: with valid configuration, a finite input and callbacks that
\* return, Run eventually returns nil with all workers finished.
C12_RunTerminates ==
    (pc = "idle" /\ ConfigValid) ~>
        (pc = "returned" /\ result = "nil"
            /\ \A q \in Dispatched : proc[q].pc = "done")

\* Run has returned nil after rows went through workers.
C12_Witness ==
    /\ pc = "returned"
    /\ result = "nil"
    /\ ~cancelled
    /\ Len(input) >= 2
    /\ \A q \in 1..Len(input) : proc[q].pc = "done"

\* C18: while W workers are inside callbacks (which, if they never
\* return, stays so for ever) Run takes no slot, reads nothing,
\* dispatches nothing and does not return, cancelled or not.
C18_HungWorkersStall ==
    [][(workers >= 1 /\ Cardinality(Running) = workers) =>
          /\ readLog' = readLog
          /\ Dispatched' = Dispatched
          /\ pc' \notin {"read", "closing", "returned"}
          /\ result' = result]_vars

\* Both workers are inside callbacks, the context has been cancelled and
\* Run, having left the loop with input unread, is blocked in wg.Wait.
C18_Witness ==
    /\ workers = 2
    /\ Cardinality(Running) = 2
    /\ cancelled
    /\ pc = "wait"
    /\ pos < Len(input)
    /\ ~ENABLED Wait

\* C19: once the context is cancelled the loop of Run is eventually left,
\* also when every slot is held by a worker that never finishes.
C19_CancelLeavesLoop ==
    (cancelled /\ pc \in {"select", "read", "inOnError", "relsem"}) ~>
        pc \in {"wait", "closing", "returned"}

\* Run has left the loop on cancellation while all slots were held by
\* workers inside callbacks and input was left.
C19_Witness ==
    /\ workers >= 1
    /\ cancelled
    /\ pc = "wait"
    /\ sem = workers
    /\ Cardinality(Running) = workers
    /\ pos < Len(input)
    /\ (readLog = <<>> \/ readLog[Len(readLog)].res # "EOF")


-----------------------------------------------------------------------------
\* The wrap of the row ordinal.

\* How many ordinals below the largest int the late part of a run starts.
MaxBehind == 1

\* Run at the top of an iteration late in a long stream: the ordinal has
\* come within MaxBehind of the largest int, the rows read so far have all
\* been processed, input holds the lines still unread and the histories
\* cover the run from here on.
LateInit ==
    /\ input \in Inputs
    /\ pos = 0
    /\ OnRow \in BOOLEAN
    /\ Parse \in BOOLEAN
    /\ OnData \in BOOLEAN
    /\ OnError \in BOOLEAN
    /\ workers \in 1..MaxWorkers
    /\ ~HandlerWithoutParse
    /\ cancelled = FALSE
    /\ ReuseRecord = ReuseFor(workers)
    /\ lastRecord = <<>>
    /\ pc = "select"
    /\ ixRow \in {IntMax - k : k \in 0..MaxBehind}
    /\ sem = 0
    /\ wg = 0
    /\ closed = 0
    /\ result = "none"
    /\ proc = [p \in 1..MaxRows |-> NoProc]
    /\ readLog = <<>>
    /\ mainErr = <<>>
    /\ iterCancelled = FALSE
    /\ faults = Cardinality(Faulty(input))
    /\ leaked = 0

\* The steps that remain once the loop of Run has been entered.
LateNext ==
    \/ SelectDone
    \/ SelectSend
    \/ ReadEOF
    \/ ReadError
    \/ ErrorReturn
    \/ ReleaseContinue
    \/ ReadDispatch
    \/ Wait
    \/ Close
    \/ Cancel
    \/ \E q \in Procs : Start(q)
    \/ \E q \in Procs : OnRowReturn(q)
    \/ \E q \in Procs : ParseReturn(q)
    \/ \E q \in Procs : OnDataReturn(q)
    \/ \E q \in Procs : OnErrorReturn(q)
    \/ \E q \in Procs : Release(q)
    \/ \E q \in Procs : Done(q)

LateSpec == LateInit /\ [][LateNext]_vars

\* C21: the loop of Run is left only from the select, on cancellation, or
\* from a read that returned end-of-stream; the step of the ordinal never
\* ends it, also when the ordinal passes the largest int with rows unread.
C21_LoopEndsOnCancelOrEOF ==
    [][(pc \in {"select", "read", "relsem"} /\ pc' = "wait") =>
          \/ pc = "select" /\ cancelled
          \/ /\ pc = "read"
             /\ readLog' # readLog
             /\ readLog'[Len(readLog')].res = "EOF"]_vars

====
